---- MODULE Spec2Model ----
(***************************************************************************)
(* Model of the post-classification refinement and structuring layer of    *)
(* predict.py: apply_advanced_rules (the heading rule engine),             *)
(* structure_final_output (the outline structurer) and the per-block loop  *)
(* of predict_outline (median font, sequential heading context).           *)
(*                                                                         *)
(* Strings are sequences of one-character strings, so that strip, split,   *)
(* the regular expressions, startswith/endswith and int() are computed on  *)
(* the characters.  A block is a record whose DOMAIN is the set of keys    *)
(* the Python dict has: an optional key is simply not in the DOMAIN.       *)
(* Font sizes and coordinates are whole points; the median of an even      *)
(* number of sizes can be a half point, so median_font is kept in half     *)
(* points (twice its value) and every comparison against it is scaled.     *)
(***************************************************************************)
EXTENDS Integers, Sequences, FiniteSets, TLC

VARIABLES pc, model_loaded, blocks, median_font, i, last_heading_info,
          all_labeled_blocks, initial_label, final_label, final_output,
          saved, first_pass

vars == << pc, model_loaded, blocks, median_font, i, last_heading_info,
           all_labeled_blocks, initial_label, final_label, final_output,
           saved, first_pass >>

----------------------------------------------------------------------------
(* Characters and the str methods the code uses                            *)

Digits == {"0", "1", "2", "3", "4", "5", "6", "7", "8", "9"}

UpperSeq ==
    << "A", "B", "C", "D", "E", "F", "G", "H", "I", "J", "K", "L", "M",
       "N", "O", "P", "Q", "R", "S", "T", "U", "V", "W", "X", "Y", "Z" >>

LowerSeq ==
    << "a", "b", "c", "d", "e", "f", "g", "h", "i", "j", "k", "l", "m",
       "n", "o", "p", "q", "r", "s", "t", "u", "v", "w", "x", "y", "z" >>

IsDigit(c) == c \in Digits

IsSpace(c) == c \in {" ", "\t", "\n"}

IsUpper(c) == \E k \in 1..26 : UpperSeq[k] = c

IsLower(c) == \E k \in 1..26 : LowerSeq[k] = c

IsCased(c) == IsUpper(c) \/ IsLower(c)

\* \w : letters, digits and the underscore
IsWord(c) == IsCased(c) \/ IsDigit(c) \/ c = "_"

LowerChar(c) ==
    IF IsUpper(c) THEN LowerSeq[CHOOSE k \in 1..26 : UpperSeq[k] = c] ELSE c

\* str.lower()
lower(t) == [k \in 1..Len(t) |-> LowerChar(t[k])]

SetMin(S) == CHOOSE x \in S : \A y \in S : x <= y

\* str.lstrip(), str.rstrip() and str.strip()
RECURSIVE lstrip(_)
lstrip(t) ==
    IF t = << >> \/ ~IsSpace(Head(t)) THEN t ELSE lstrip(Tail(t))

RECURSIVE rstrip(_)
rstrip(t) ==
    IF t = << >> \/ ~IsSpace(t[Len(t)]) THEN t
    ELSE rstrip(SubSeq(t, 1, Len(t) - 1))

strip(t) == rstrip(lstrip(t))

\* the positions at which the words of str.split() start
WordStarts(t) ==
    {k \in 1..Len(t) : ~IsSpace(t[k]) /\ (k = 1 \/ IsSpace(t[k - 1]))}

\* the word of str.split() that starts at position s
WordAt(t, s) ==
    LET e == CHOOSE k \in s..Len(t) :
                 /\ k = Len(t) \/ IsSpace(t[k + 1])
                 /\ \A m \in s..k : ~IsSpace(t[m])
    IN  SubSeq(t, s, e)

\* len(text.split())
WordCount(t) == Cardinality(WordStarts(t))

\* str.istitle()
istitle(w) ==
    /\ \E k \in 1..Len(w) : IsCased(w[k])
    /\ \A k \in 1..Len(w) :
          /\ IsUpper(w[k]) => (k = 1 \/ ~IsCased(w[k - 1]))
          /\ IsLower(w[k]) => (k > 1 /\ IsCased(w[k - 1]))

\* str.isupper()
isupper(w) ==
    /\ \E k \in 1..Len(w) : IsCased(w[k])
    /\ \A k \in 1..Len(w) : ~IsLower(w[k])

\* str.startswith(prefix)
startswith(t, prefix) ==
    Len(t) >= Len(prefix) /\ SubSeq(t, 1, Len(prefix)) = prefix

\* str.endswith((c1, c2, ...)) for one-character suffixes
endswith(t, chars) == Len(t) >= 1 /\ t[Len(t)] \in chars

AllDigits(t, a, b) == \A k \in a..b : IsDigit(t[k])

AllSpaces(t, a, b) == \A k \in a..b : IsSpace(t[k])

\* " ".join(parts)
RECURSIVE join(_)
join(parts) ==
    IF parts = << >> THEN << >>
    ELSE IF Len(parts) = 1 THEN parts[1]
    ELSE parts[1] \o << " " >> \o join(Tail(parts))

----------------------------------------------------------------------------
(* The regular expressions                                                 *)

\* re.search(r'\.{3,}\s*\d+\s*$', text)
TocEntry(t) ==
    \E q \in 4..Len(t) :
        /\ IsDigit(t[q])
        /\ \E r \in q..Len(t) :
              AllDigits(t, q, r) /\ AllSpaces(t, r + 1, Len(t))
        /\ \E p \in 1..(q - 3) :
              /\ \A k \in p..(p + 2) : t[k] = "."
              /\ AllSpaces(t, p + 3, q - 1)

\* re.search(r'\s+\d+\s*$', text)
TrailingNumber(t) ==
    \E q \in 2..Len(t) :
        /\ IsSpace(t[q - 1])
        /\ IsDigit(t[q])
        /\ \E r \in q..Len(t) :
              AllDigits(t, q, r) /\ AllSpaces(t, r + 1, Len(t))

\* re.match(r'^\d+\.\s+', text)
NumberedHeading(t) ==
    \E d \in 1..(Len(t) - 2) :
        /\ t[d + 1] = "."
        /\ IsSpace(t[d + 2])
        /\ AllDigits(t, 1, d)

\* re.match(r'^[1-9]\d*\.\s+', text)
SectionNumber(t) ==
    \E d \in 1..(Len(t) - 2) :
        /\ t[d + 1] = "."
        /\ IsSpace(t[d + 2])
        /\ AllDigits(t, 1, d) /\ t[1] # "0"

\* re.match(r'^[1-9]\d*\.[1-9]\d*\.\s+', text)
SubsectionNumber(t) ==
    \E d \in 1..(Len(t) - 4) :
        /\ t[d + 1] = "."
        /\ AllDigits(t, 1, d) /\ t[1] # "0"
        /\ \E e \in (d + 2)..(Len(t) - 2) :
              /\ t[e + 1] = "."
              /\ IsSpace(t[e + 2])
              /\ AllDigits(t, d + 2, e) /\ t[d + 2] # "0"

WordVersion == << "v", "e", "r", "s", "i", "o", "n" >>

\* re.fullmatch(r'Version\s?[\d\.]+|[\d\w\s,]+20\d{2}', text, re.IGNORECASE)
VersionOrDate(t) ==
    \/ \E s \in {7, 8} :
          /\ Len(t) > s
          /\ SubSeq(lower(t), 1, 7) = WordVersion
          /\ s = 8 => IsSpace(t[8])
          /\ \A k \in (s + 1)..Len(t) : IsDigit(t[k]) \/ t[k] = "."
    \/ /\ Len(t) >= 5
       /\ \A k \in 1..(Len(t) - 4) : IsWord(t[k]) \/ IsSpace(t[k]) \/ t[k] = ","
       /\ t[Len(t) - 3] = "2" /\ t[Len(t) - 2] = "0"
       /\ IsDigit(t[Len(t) - 1]) /\ IsDigit(t[Len(t)])

\* re.fullmatch(r'[\d\W\s]+', text)
NoLetters(t) ==
    /\ Len(t) >= 1
    /\ \A k \in 1..Len(t) : IsDigit(t[k]) \/ ~IsWord(t[k]) \/ IsSpace(t[k])

----------------------------------------------------------------------------
(* The texts of the modelled documents                                     *)

\* "Project Plan"
TxtProjectPlan ==
    << "P", "r", "o", "j", "e", "c", "t", " ", "P", "l", "a", "n" >>
\* "A Report"
TxtAReport ==
    << "A", " ", "R", "e", "p", "o", "r", "t" >>
\* "1. Introduction"
TxtIntroduction ==
    << "1", ".", " ", "I", "n", "t", "r", "o", "d", "u", "c", "t", "i", "o", "n" >>
\* "This is body text."
TxtBody ==
    << "T", "h", "i", "s", " ", "i", "s", " ", "b", "o", "d", "y", " ", "t", "e", "x", "t", "." >>
\* "  "
TxtBlank ==
    << " ", " " >>
\* "Scope ... 5"
TxtToc ==
    << "S", "c", "o", "p", "e", " ", ".", ".", ".", " ", "5" >>
\* "Scope of Work 12"
TxtTrailingPage ==
    << "S", "c", "o", "p", "e", " ", "o", "f", " ", "W", "o", "r", "k", " ", "1", "2" >>
\* "2. Annex of 12"
TxtNumberedTrailing ==
    << "2", ".", " ", "A", "n", "n", "e", "x", " ", "o", "f", " ", "1", "2" >>
\* "Version Date Remarks"
TxtTableHeader ==
    << "V", "e", "r", "s", "i", "o", "n", " ", "D", "a", "t", "e", " ", "R", "e", "m", "a", "r", "k", "s" >>
\* "Version 1.2"
TxtVersion ==
    << "V", "e", "r", "s", "i", "o", "n", " ", "1", ".", "2" >>
\* "March 2024"
TxtDate ==
    << "M", "a", "r", "c", "h", " ", "2", "0", "2", "4" >>
\* "1.2. Scope"
TxtSubsection ==
    << "1", ".", "2", ".", " ", "S", "c", "o", "p", "e" >>
\* "1.0. Scope"
TxtZeroSubsection ==
    << "1", ".", "0", ".", " ", "S", "c", "o", "p", "e" >>
\* "Summary:"
TxtColon ==
    << "S", "u", "m", "m", "a", "r", "y", ":" >>
\* "12"
TxtDigits ==
    << "1", "2" >>
\* "Copyright"
TxtCopyright ==
    << "C", "o", "p", "y", "r", "i", "g", "h", "t" >>
\* " Annex "
TxtPadded ==
    << " ", "A", "n", "n", "e", "x", " " >>
\* "Untitled Document"
TxtUntitled ==
    << "U", "n", "t", "i", "t", "l", "e", "d", " ", "D", "o", "c", "u", "m", "e", "n", "t" >>
\* "Project Plan A Report"
TxtMergedTitle ==
    << "P", "r", "o", "j", "e", "c", "t", " ", "P", "l", "a", "n", " ", "A", " ", "R", "e", "p", "o", "r", "t" >>

\* a text longer than the 150 characters a heading may have
TxtLong == [k \in 1..151 |-> "a"]

----------------------------------------------------------------------------
(* Labels                                                                  *)

NONE == << "N", "O", "N", "E" >>

TITLE == << "T", "I", "T", "L", "E" >>

H1 == << "H", "1" >>

H2 == << "H", "2" >>

H3 == << "H", "3" >>

\* a heading label whose suffix is not a number
HX == << "H", "X" >>

----------------------------------------------------------------------------
(* Blocks: dict access                                                     *)

Has(block, key) == key \in DOMAIN block

\* block.get(key, default)
get(block, key, default) == IF Has(block, key) THEN block[key] ELSE default

\* a returned value, and a raised exception
Return(v) == [exc |-> "none", value |-> v]

Raise(e) == [exc |-> e, value |-> << >>]

DefaultPageHeight == 792

MaxHeadingChars == 150

\* y_pos_normalized > 0.9 or y_pos_normalized < 0.1, on
\* y_pos_normalized = bbox.y1 / page_height
InHeaderFooterZone(block) ==
    LET page_height == get(block, "page_height", DefaultPageHeight)
        y1 == block.bbox.y1
    IN  y1 * 10 > 9 * page_height \/ y1 * 10 < page_height

\* all(word.istitle() or word.isupper() for word in words)
AllWordsCapitalized(text) ==
    \A s \in WordStarts(text) :
        istitle(WordAt(text, s)) \/ isupper(WordAt(text, s))

\* relative_size > 1.25 and relative_size > 1.15, on
\* relative_size = font_size / median_font if median_font > 0 else 1.0
\* (median is in half points)
MuchLarger(font_size, median) ==
    median > 0 /\ font_size * 200 > 125 * median

Larger(font_size, median) ==
    median > 0 /\ font_size * 200 > 115 * median

\* the heading score of the stripped text of a block
heading_score(block, text, median) ==
    LET font_size == get(block, "font_size", 0)
        is_bold == get(block, "is_bold", FALSE)
        space_before == get(block, "vertical_space_before", 0)
    IN    (IF is_bold THEN 2 ELSE 0)
        + (IF MuchLarger(font_size, median) THEN 3
           ELSE IF Larger(font_size, median) THEN 2 ELSE 0)
        + (IF space_before * 2 > font_size * 3 THEN 2 ELSE 0)
        - (IF Len(text) > MaxHeadingChars THEN 3 ELSE 0)
        - (IF endswith(text, {".", ":", ";"}) THEN 2 ELSE 0)

\* decide without the rule that a TITLE can only be on page 1
decide_KeepsTitle(block, text, predicted_label, score) ==
    IF startswith(predicted_label, << "H" >>) /\ score < 1 THEN NONE
    ELSE IF predicted_label = NONE /\ score >= 4
         THEN IF SubsectionNumber(text) THEN H2 ELSE H1
    ELSE predicted_label

\* decide with the downgrade threshold off by one
decide_LowThreshold(block, text, predicted_label, score) ==
    IF startswith(predicted_label, << "H" >>) /\ score < 0 THEN NONE
    ELSE IF predicted_label = NONE /\ score >= 4
         THEN IF SubsectionNumber(text) THEN H2 ELSE H1
    ELSE IF predicted_label = TITLE /\ block.page_number # 1 THEN H1
    ELSE predicted_label

\* the decision logic that follows the score
decide(block, text, predicted_label, score) ==
    IF startswith(predicted_label, << "H" >>) /\ score < 1 THEN NONE
    ELSE IF predicted_label = NONE /\ score >= 4
         THEN IF SubsectionNumber(text) THEN H2
              ELSE IF SectionNumber(text) THEN H1
              ELSE H1
    ELSE IF predicted_label = TITLE /\ block.page_number # 1 THEN H1
    ELSE predicted_label

\* apply_advanced_rules(block, predicted_label, median_font)
apply_advanced_rules(block, predicted_label, median) ==
    LET text == strip(block.text)
    IN  IF text = << >> THEN Return(NONE)
        ELSE IF TocEntry(text) THEN Return(NONE)
        ELSE IF WordCount(text) > 2 /\ TrailingNumber(text)
                /\ ~NumberedHeading(text) THEN Return(NONE)
        ELSE IF InHeaderFooterZone(block) /\ ~Has(block, "font_size")
             THEN Raise("KeyError")
        ELSE IF InHeaderFooterZone(block) /\ block.font_size * 2 <= median
             THEN Return(NONE)
        ELSE IF WordCount(text) > 2 /\ AllWordsCapitalized(text)
                /\ ~Has(block, "font_size")
             THEN Raise("KeyError")
        ELSE IF WordCount(text) > 2 /\ AllWordsCapitalized(text)
                /\ block.font_size * 20 < median * 11
             THEN Return(NONE)
        ELSE IF block.page_number = 1 /\ VersionOrDate(text)
             THEN Return(NONE)
        ELSE Return(decide(block, text, predicted_label,
                           heading_score(block, text, median)))
----------------------------------------------------------------------------
(* structure_final_output.  Positions in a block list are Python's: the    *)
(* block with index j is labeled_blocks[j + 1].                            *)

WordCopyright == << "c", "o", "p", "y", "r", "i", "g", "h", "t" >>

MinTitleChars == 4

FontTolerance == 1

\* sort_key that ranks a block labeled TITLE first
sort_key_PrefersTitle(block) ==
    IF Has(block, "final_label") /\ block.final_label = TITLE THEN 1000
    ELSE get(block, "font_size", 0)

\* sort_key((block, index))
sort_key(block) ==
    LET text == strip(block.text)
    IN  IF NoLetters(text) \/ Len(text) < MinTitleChars
           \/ lower(text) = WordCopyright
        THEN 0
        ELSE get(block, "font_size", 0)

\* the indices of the blocks with block.get('page_number') == 1, in order
RECURSIVE page1_indices(_, _)
page1_indices(labeled_blocks, j) ==
    IF j >= Len(labeled_blocks) THEN << >>
    ELSE (IF Has(labeled_blocks[j + 1], "page_number")
             /\ labeled_blocks[j + 1].page_number = 1
          THEN << j >> ELSE << >>)
         \o page1_indices(labeled_blocks, j + 1)

\* the sort keys of the blocks of the indices idx
RECURSIVE sort_keys(_, _)
sort_keys(labeled_blocks, idx) ==
    IF idx = << >> THEN << >>
    ELSE << sort_key(labeled_blocks[Head(idx) + 1]) >>
             \o sort_keys(labeled_blocks, Tail(idx))

\* a list without its element at position k
without(list, k) == SubSeq(list, 1, k - 1) \o SubSeq(list, k + 1, Len(list))

\* the first position of a largest key
first_largest(keys) ==
    CHOOSE k \in 1..Len(keys) :
        /\ \A m \in 1..Len(keys) : keys[m] <= keys[k]
        /\ \A m \in 1..(k - 1) : keys[m] < keys[k]

\* list.sort(key=sort_key, reverse=True): a stable sort, so that blocks of
\* equal key keep their reading order; idx is the list still to be placed
\* and keys holds its sort keys
RECURSIVE sort_reverse(_, _)
sort_reverse(keys, idx) ==
    IF idx = << >> THEN << >>
    ELSE << idx[first_largest(keys)] >>
             \o sort_reverse(without(keys, first_largest(keys)),
                             without(idx, first_largest(keys)))

\* the page-1 blocks in the order of the title-detection sort
ranked_page1(labeled_blocks, idx) ==
    sort_reverse(sort_keys(labeled_blocks, idx), idx)

\* list.index(x): the first position (from 0) holding x
index_of(list, x) == SetMin({k \in 1..Len(list) : list[k] = x}) - 1

\* is_similar_font with an inclusive tolerance
is_similar_font_Inclusive(next_block, last_title_block) ==
    LET diff == next_block.font_size - last_title_block.font_size
    IN  (IF diff < 0 THEN 0 - diff ELSE diff) <= FontTolerance

\* is_similar_font and is_close_vertically
is_similar_font(next_block, last_title_block) ==
    LET diff == next_block.font_size - last_title_block.font_size
    IN  (IF diff < 0 THEN 0 - diff ELSE diff) < FontTolerance

\* is_close_vertically that accepts only overlapping lines
is_close_vertically_NoGap(next_block, last_title_block) ==
    next_block.bbox.y0 - last_title_block.bbox.y1 < 0

is_close_vertically(next_block, last_title_block) ==
    next_block.bbox.y0 - last_title_block.bbox.y1 < last_title_block.font_size

\* the merge loop over the ranked page-1 blocks from position k on;
\* acc holds title_parts, title_block_indices and last_title_block
RECURSIVE merge_title(_, _, _, _)
merge_title(labeled_blocks, ranked, k, acc) ==
    IF k >= Len(ranked) THEN acc
    ELSE LET next_block == labeled_blocks[ranked[k + 1] + 1]
             last_title_block == labeled_blocks[acc.last + 1]
         IN  IF ~Has(next_block, "font_size")
                \/ ~Has(last_title_block, "font_size")
             THEN [acc EXCEPT !.exc = "KeyError"]
             ELSE IF is_similar_font(next_block, last_title_block)
                     /\ is_close_vertically(next_block, last_title_block)
             THEN merge_title(labeled_blocks, ranked, k + 1,
                     [acc EXCEPT !.parts = Append(@, next_block.text),
                                 !.indices = Append(@, ranked[k + 1]),
                                 !.last = ranked[k + 1]])
             ELSE acc

\* the title from the ranked page-1 blocks: the first one starts it, the
\* following ones are merged in while they are similar and close
title_of_ranked(labeled_blocks, ranked) ==
    IF ranked = << >>
    THEN [exc |-> "none", parts |-> << TxtUntitled >>,
          indices |-> << >>, last |-> 0 - 1]
    ELSE merge_title(labeled_blocks, ranked,
                     index_of(ranked, ranked[1]) + 1,
                     [exc |-> "none",
                      parts |-> << labeled_blocks[ranked[1] + 1].text >>,
                      indices |-> << ranked[1] >>,
                      last |-> ranked[1]])

\* title detection: title_parts and title_block_indices
title_scan(labeled_blocks) ==
    title_of_ranked(labeled_blocks,
                    ranked_page1(labeled_blocks,
                                 page1_indices(labeled_blocks, 0)))

\* the elements of a list
elements(list) == {list[k] : k \in 1..Len(list)}

\* title_block_indices as a set
title_block_indices(labeled_blocks) ==
    elements(title_scan(labeled_blocks).indices)

\* the outline loop without the skip of the title blocks
in_title_Never(title_indices, j) == FALSE

\* i in title_block_indices
in_title(title_indices, j) == j \in title_indices

\* label and label.startswith('H'), on label = block.get('final_label')
is_heading(block) ==
    /\ Has(block, "final_label")
    /\ block.final_label # << >>
    /\ startswith(block.final_label, << "H" >>)

\* the outline loop from index j on
RECURSIVE build_outline(_, _, _)
build_outline(labeled_blocks, title_indices, j) ==
    IF j >= Len(labeled_blocks) THEN << >>
    ELSE LET block == labeled_blocks[j + 1]
         IN  (IF ~in_title(title_indices, j) /\ is_heading(block)
              THEN << [level |-> block.final_label,
                       text |-> block.text,
                       page |-> block.page_number] >>
              ELSE << >>)
             \o build_outline(labeled_blocks, title_indices, j + 1)

\* the result for a title scan: the exception it raised, or the stripped
\* title and the outline
output_of_scan(labeled_blocks, scan) ==
    IF scan.exc # "none" THEN Raise(scan.exc)
    ELSE Return([title |-> strip(join(scan.parts)),
                 outline |-> build_outline(labeled_blocks,
                                           elements(scan.indices), 0)])

\* structure_final_output(labeled_blocks)
structure_final_output(labeled_blocks) ==
    output_of_scan(labeled_blocks, title_scan(labeled_blocks))
----------------------------------------------------------------------------
(* predict_outline: document statistics and the sequential context         *)

MinFontSize == 6

DefaultMedianFont == 12

\* doc_font_sizes = [b.get('font_size', 0) for b in blocks
\*                   if b.get('font_size', 0) > 6]
RECURSIVE doc_font_sizes(_)
doc_font_sizes(bs) ==
    IF bs = << >> THEN << >>
    ELSE (IF get(Head(bs), "font_size", 0) > MinFontSize
          THEN << get(Head(bs), "font_size", 0) >> ELSE << >>)
         \o doc_font_sizes(Tail(bs))

\* the sizes in ascending order
RECURSIVE sorted(_)
sorted(sizes) ==
    IF sizes = << >> THEN << >>
    ELSE LET m == SetMin({k \in 1..Len(sizes) :
                             \A n \in 1..Len(sizes) : sizes[k] <= sizes[n]})
             rest == [k \in 1..(Len(sizes) - 1) |->
                         IF k < m THEN sizes[k] ELSE sizes[k + 1]]
         IN  << sizes[m] >> \o sorted(rest)

\* np.median(doc_font_sizes) if doc_font_sizes else 12.0, in half points
compute_median_font(bs) ==
    LET sizes == sorted(doc_font_sizes(bs))
        n == Len(sizes)
    IN  IF n = 0 THEN 2 * DefaultMedianFont
        ELSE IF n % 2 = 1 THEN 2 * sizes[(n + 1) \div 2]
        ELSE sizes[n \div 2] + sizes[n \div 2 + 1]

DigitSeq == << "0", "1", "2", "3", "4", "5", "6", "7", "8", "9" >>

DigitValue(c) == (CHOOSE k \in 1..10 : DigitSeq[k] = c) - 1

RECURSIVE decimal(_)
decimal(t) ==
    IF t = << >> THEN 0
    ELSE 10 * decimal(SubSeq(t, 1, Len(t) - 1)) + DigitValue(t[Len(t)])

\* int(s): surrounding whitespace and a sign are accepted, then digits
int(s) ==
    LET t == strip(s)
        signed == t # << >> /\ t[1] \in {"+", "-"}
        body == IF signed THEN Tail(t) ELSE t
    IN  IF body = << >> \/ ~AllDigits(body, 1, Len(body))
        THEN Raise("ValueError")
        ELSE Return(IF signed /\ t[1] = "-" THEN 0 - decimal(body)
                    ELSE decimal(body))

\* last_heading_info before the first block
initial_heading_info(median) ==
    [index |-> 0 - 1, level |-> 0, font_size |-> median]

\* block.get('font_size', median_font), in half points
context_font_size(block, median) ==
    IF Has(block, "font_size") THEN 2 * block.font_size ELSE median

\* update_heading_info that forgets the TITLE branch
update_heading_info_NoTitle(info, j, block, label, median) ==
    IF startswith(label, << "H" >>)
    THEN LET level == int(Tail(label))
         IN  IF level.exc = "none"
             THEN [index |-> j, level |-> level.value,
                   font_size |-> context_font_size(block, median)]
             ELSE info
    ELSE info

\* last_heading_info after block j got its final label
update_heading_info(info, j, block, label, median) ==
    IF startswith(label, << "H" >>)
    THEN LET level == int(Tail(label))
         IN  IF level.exc = "none"
             THEN [index |-> j, level |-> level.value,
                   font_size |-> context_font_size(block, median)]
             ELSE info
    ELSE IF label = TITLE
    THEN [index |-> j, level |-> 0,
          font_size |-> context_font_size(block, median)]
    ELSE info

\* block['final_label'] = final_label
with_final_label(block, label) == ("final_label" :> label) @@ block
----------------------------------------------------------------------------
(* The documents                                                           *)

MaxBlocks == 3

MaxPage == 2

\* a block of the extractor; the keys given as fragments may be absent
Block(text, page_number, y0, y1) ==
    [text |-> text, page_number |-> page_number,
     bbox |-> [y0 |-> y0, y1 |-> y1]]

NoKey == << >>

\* what the classifier answers in the modelled runs
FirstPassLabels == {NONE, TITLE, H2, H3, HX}

\* the blocks of the documents predict_outline is run on
TitleBlock ==
    Block(TxtProjectPlan, 1, 10, 30)
        @@ [font_size |-> 24, is_bold |-> TRUE, page_height |-> 792,
            vertical_space_before |-> 0]

SubsectionBlock ==
    Block(TxtSubsection, 2, 380, 400)
        @@ [font_size |-> 13, is_bold |-> TRUE, page_height |-> 792,
            vertical_space_before |-> 40]

UnsizedBodyBlock ==
    Block(TxtBody, 2, 420, 440)
        @@ [font_size |-> 0, is_bold |-> FALSE, page_height |-> 792,
            vertical_space_before |-> 5]

BareBlock == Block(TxtAReport, 1, 380, 400)

ExtractedBlocks == {TitleBlock, SubsectionBlock, UnsizedBodyBlock, BareBlock}

SeqsUpTo(S, n) == UNION {[1..k -> S] : k \in 0..n}

Documents == SeqsUpTo(ExtractedBlocks, MaxBlocks)

\* the inputs apply_advanced_rules is examined on
RuleTexts ==
    {TxtProjectPlan, TxtIntroduction, TxtBody, TxtBlank, TxtToc,
     TxtTrailingPage, TxtNumberedTrailing, TxtTableHeader, TxtVersion,
     TxtDate, TxtSubsection, TxtZeroSubsection, TxtColon, TxtLong,
     TxtPadded}

RuleBoxes == {<< 10, 30 >>, << 380, 400 >>, << 740, 760 >>}

RuleFontSizes == {NoKey} \cup {[font_size |-> f] : f \in {11, 13, 14, 24}}

RuleBold == {NoKey} \cup {[is_bold |-> b] : b \in BOOLEAN}

RuleSpaces ==
    {NoKey, [vertical_space_before |-> 40]}

RulePageHeights == {NoKey, [page_height |-> 1000]}

RuleBlocks ==
    {Block(t, p, y[1], y[2]) @@ f @@ b @@ v @@ h :
        t \in RuleTexts, p \in 1..MaxPage, y \in RuleBoxes,
        f \in RuleFontSizes, b \in RuleBold, v \in RuleSpaces,
        h \in RulePageHeights}

\* median_font in half points: none, 11 and 12.5
RuleMedians == {0, 22, 25}

\* the four-block document of the end-to-end scenario
ScenarioBlocks ==
    << Block(TxtProjectPlan, 1, 10, 30)
           @@ [font_size |-> 24, is_bold |-> TRUE],
       Block(TxtAReport, 1, 32, 50)
           @@ [font_size |-> 23, is_bold |-> TRUE],
       Block(TxtIntroduction, 2, 10, 25)
           @@ [font_size |-> 16, is_bold |-> TRUE,
               vertical_space_before |-> 30],
       Block(TxtBody, 2, 30, 45) @@ [font_size |-> 11] >>

RuleDocuments == {<< b >> : b \in RuleBlocks} \cup {ScenarioBlocks}

\* the labeled blocks structure_final_output is examined on
StructureLabels == {NONE, TITLE, H2}

StructureBlocks ==
    {Block(TxtProjectPlan, 1, 10, 30) @@ [font_size |-> 24],
     Block(TxtAReport, 1, 32, 50) @@ [font_size |-> 24],
     Block(TxtDigits, 1, 100, 120) @@ [font_size |-> 24],
     Block(TxtIntroduction, 2, 10, 25) @@ [font_size |-> 16],
     Block(TxtCopyright, 1, 700, 710)}

LabeledBlocks ==
    {with_final_label(b, l) : b \in StructureBlocks, l \in StructureLabels}

LabeledDocuments == SeqsUpTo(LabeledBlocks, MaxBlocks)

----------------------------------------------------------------------------
(* State                                                                   *)

\* a local that has not been assigned yet
Unset == [exc |-> "unset", value |-> << >>]

InitLocals ==
    /\ i = 0
    /\ last_heading_info = initial_heading_info(0)
    /\ initial_label = << >>
    /\ final_label = Unset
    /\ final_output = Unset
    /\ saved = Unset
    /\ first_pass = << >>

\* predict_outline is entered
Init ==
    /\ pc = "load"
    /\ model_loaded = FALSE
    /\ blocks = << >>
    /\ all_labeled_blocks = << >>
    /\ median_font = 0
    /\ InitLocals

\* joblib.load succeeds
LoadModel ==
    /\ pc = "load"
    /\ model_loaded' = TRUE
    /\ pc' = "extract"
    /\ UNCHANGED << blocks, median_font, i, last_heading_info,
                    all_labeled_blocks, initial_label, final_label,
                    final_output, saved, first_pass >>

\* joblib.load raises: FATAL ERROR is printed and predict_outline returns
LoadModelFails ==
    /\ pc = "load"
    /\ pc' = "done"
    /\ UNCHANGED << model_loaded, blocks, median_font, i, last_heading_info,
                    all_labeled_blocks, initial_label, final_label,
                    final_output, saved, first_pass >>

\* blocks = pdf_extractor.extract_enriched_blocks(pdf_path);
\* without blocks a warning is printed and predict_outline returns
ExtractBlocks ==
    /\ pc = "extract"
    /\ \E doc \in Documents :
          /\ blocks' = doc
          /\ pc' = IF doc = << >> THEN "done" ELSE "stats"
    /\ UNCHANGED << model_loaded, median_font, i, last_heading_info,
                    all_labeled_blocks, initial_label, final_label,
                    final_output, saved, first_pass >>

\* median_font, last_heading_info and all_labeled_blocks before the loop
ComputeStatistics ==
    /\ pc = "stats"
    /\ median_font' = compute_median_font(blocks)
    /\ last_heading_info' = initial_heading_info(median_font')
    /\ all_labeled_blocks' = << >>
    /\ i' = 0
    /\ pc' = "loop"
    /\ UNCHANGED << model_loaded, blocks, initial_label, final_label,
                    final_output, saved, first_pass >>

\* the rest of an iteration, once the rules have answered result
LabeledWith(block, result) ==
    /\ final_label' = result
    /\ IF result.exc # "none"
       THEN /\ pc' = "raised"
            /\ UNCHANGED << blocks, all_labeled_blocks, i,
                            last_heading_info >>
       ELSE /\ blocks' = [blocks EXCEPT
                             ![i + 1] = with_final_label(block, result.value)]
            /\ all_labeled_blocks' =
                  Append(all_labeled_blocks,
                         with_final_label(block, result.value))
            /\ last_heading_info' =
                  update_heading_info(last_heading_info, i, block,
                                      result.value, median_font)
            /\ i' = i + 1
            /\ pc' = "loop"

\* one iteration of the loop: the classifier's label, the rules, the
\* block's final_label and the heading context
LabelBlock ==
    /\ pc = "loop"
    /\ i < Len(blocks)
    /\ \E label \in FirstPassLabels :
          /\ initial_label' = label
          /\ LabeledWith(blocks[i + 1],
                         apply_advanced_rules(blocks[i + 1], label,
                                              median_font))
    /\ UNCHANGED << model_loaded, median_font, final_output, saved,
                    first_pass >>

\* final_output = structure_final_output(all_labeled_blocks)
StructureOutput ==
    /\ pc = "loop"
    /\ i = Len(blocks)
    /\ final_output' = structure_final_output(all_labeled_blocks)
    /\ pc' = IF final_output'.exc # "none" THEN "raised" ELSE "save"
    /\ UNCHANGED << model_loaded, blocks, median_font, i, last_heading_info,
                    all_labeled_blocks, initial_label, final_label, saved,
                    first_pass >>

\* the JSON of final_output is written or printed
SaveOutput ==
    /\ pc = "save"
    /\ saved' = final_output
    /\ pc' = "done"
    /\ UNCHANGED << model_loaded, blocks, median_font, i, last_heading_info,
                    all_labeled_blocks, initial_label, final_label,
                    final_output, first_pass >>

Next ==
    \/ LoadModel
    \/ LoadModelFails
    \/ ExtractBlocks
    \/ ComputeStatistics
    \/ LabelBlock
    \/ StructureOutput
    \/ SaveOutput

Spec == Init /\ [][Next]_vars

----------------------------------------------------------------------------
(* apply_advanced_rules on each block of a document in order, under a      *)
(* given median_font, and then structure_final_output; first_pass keeps    *)
(* the first-pass labels that were supplied                                *)

InitRules ==
    /\ pc = "rules"
    /\ model_loaded = TRUE
    /\ blocks \in RuleDocuments
    /\ all_labeled_blocks = << >>
    /\ median_font \in RuleMedians
    /\ InitLocals

\* the block is appended with the label the rules answered
AppendedWith(block, result) ==
    /\ final_label' = result
    /\ IF result.exc # "none"
       THEN /\ pc' = "raised"
            /\ UNCHANGED << all_labeled_blocks, i >>
       ELSE /\ all_labeled_blocks' =
                  Append(all_labeled_blocks,
                         with_final_label(block, result.value))
            /\ i' = i + 1
            /\ pc' = IF i + 1 = Len(blocks) THEN "labeled" ELSE "rules"

\* final_label = apply_advanced_rules(block, label, median_font) on the
\* next block
ApplyRules ==
    /\ pc = "rules"
    /\ i < Len(blocks)
    /\ \E label \in FirstPassLabels :
          /\ initial_label' = label
          /\ first_pass' = Append(first_pass, label)
          /\ AppendedWith(blocks[i + 1],
                          apply_advanced_rules(blocks[i + 1], label,
                                               median_font))
    /\ UNCHANGED << model_loaded, blocks, median_font, last_heading_info,
                    final_output, saved >>

\* structure_final_output(all_labeled_blocks) on a labeled document
StructureLabeled ==
    /\ pc = "labeled"
    /\ final_output' = structure_final_output(all_labeled_blocks)
    /\ pc' = IF final_output'.exc # "none" THEN "raised" ELSE "done"
    /\ UNCHANGED << model_loaded, blocks, median_font, i, last_heading_info,
                    all_labeled_blocks, initial_label, final_label, saved,
                    first_pass >>

NextRules == ApplyRules \/ StructureLabeled

SpecRules == InitRules /\ [][NextRules]_vars

\* structure_final_output on any labeled document
InitStructure ==
    /\ pc = "labeled"
    /\ model_loaded = TRUE
    /\ blocks = << >>
    /\ all_labeled_blocks \in LabeledDocuments
    /\ median_font = 0
    /\ InitLocals

NextStructure == StructureLabeled

SpecStructure == InitStructure /\ [][NextStructure]_vars

----------------------------------------------------------------------------
(* Properties of apply_advanced_rules (SpecRules)                          *)

\* the last call of apply_advanced_rules: whether there was one, its block,
\* its first-pass label and the text the rules look at
Called == final_label.exc # "unset"

CalledBlock == IF final_label.exc = "none" THEN blocks[i] ELSE blocks[i + 1]

CalledLabel == initial_label

CalledText == strip(CalledBlock.text)

Returned == Called /\ final_label.exc = "none"

\* one of the negative filters of the rule engine excludes the block
Excluded(block, median) ==
    LET text == strip(block.text)
        sized == Has(block, "font_size")
    IN  \/ text = << >>
        \/ TocEntry(text)
        \/ WordCount(text) > 2 /\ TrailingNumber(text)
              /\ ~NumberedHeading(text)
        \/ InHeaderFooterZone(block) /\ sized
              /\ 2 * block.font_size <= median
        \/ WordCount(text) > 2 /\ AllWordsCapitalized(text) /\ sized
              /\ 20 * block.font_size < 11 * median
        \/ block.page_number = 1 /\ VersionOrDate(text)

\* C2 as stated: a TITLE-labeled block that is not on page 1 always comes
\* back as H1, whatever its text, position and font size are.
C2_Original ==
    (Called /\ CalledLabel = TITLE /\ CalledBlock.page_number # 1)
        => final_label = Return(H1)

\* C2 amended: for a TITLE-labeled block that is not on page 1, whenever
\* apply_advanced_rules returns, it returns NONE if a negative filter
\* excludes the block and H1 otherwise; it never returns TITLE.
C2_TitleOffPageOne ==
    (Returned /\ CalledLabel = TITLE /\ CalledBlock.page_number # 1)
        => final_label.value =
              (IF Excluded(CalledBlock, median_font) THEN NONE ELSE H1)

\* a TITLE-labeled block of page 2 that no filter excludes came back as H1
C2_Witness ==
    /\ Returned /\ CalledLabel = TITLE /\ CalledBlock.page_number = 2
    /\ ~Excluded(CalledBlock, median_font)
    /\ final_label.value = H1

\* the N.M. pattern as the documentation writes it: ^\d+\.\d+\.\s+
DocumentedSubsection(t) ==
    \E d \in 1..(Len(t) - 4) :
        /\ t[d + 1] = "."
        /\ AllDigits(t, 1, d)
        /\ \E e \in (d + 2)..(Len(t) - 2) :
              /\ t[e + 1] = "."
              /\ IsSpace(t[e + 2])
              /\ AllDigits(t, d + 2, e)

\* the block is bold, more than 1.25 times the median font, preceded by
\* more than 1.5 font sizes of space, at most 150 characters long and
\* without terminal punctuation
StrongHeading(block, median) ==
    /\ Has(block, "is_bold") /\ block.is_bold
    /\ Has(block, "font_size") /\ median > 0
    /\ 200 * block.font_size > 125 * median
    /\ Has(block, "vertical_space_before")
    /\ 2 * block.vertical_space_before > 3 * block.font_size
    /\ Len(strip(block.text)) <= MaxHeadingChars
    /\ ~endswith(strip(block.text), {".", ":", ";"})

\* C3: a block with first-pass label NONE and strong heading typography,
\* which no negative filter excludes, has a score of at least 7 and comes
\* back as H2 when its text matches ^\d+\.\d+\.\s+ and as H1 otherwise.
C3_Claim ==
    (Called /\ CalledLabel = NONE
        /\ StrongHeading(CalledBlock, median_font)
        /\ ~Excluded(CalledBlock, median_font))
        => /\ heading_score(CalledBlock, CalledText, median_font) >= 7
           /\ final_label =
                 Return(IF DocumentedSubsection(CalledText) THEN H2 ELSE H1)

\* C4: a first-pass heading label (one that starts with H) is never
\* returned for a block whose heading score is below 1: the result is NONE.
C4_LowScoreHeadingDropped ==
    (Returned /\ startswith(CalledLabel, << "H" >>)
        /\ heading_score(CalledBlock, CalledText, median_font) < 1)
        => final_label.value = NONE

\* an H3 block of score 0 that passes every filter came back as NONE
C4_Witness ==
    /\ Returned /\ CalledLabel = H3
    /\ ~Excluded(CalledBlock, median_font)
    /\ heading_score(CalledBlock, CalledText, median_font) = 0
    /\ final_label.value = NONE

\* C7: a block without font_size, is_bold, page_height or
\* vertical_space_before never makes apply_advanced_rules raise: a label
\* is always returned.
C7_Claim == Called => final_label.exc = "none"

----------------------------------------------------------------------------
(* The end-to-end scenario (SpecRules)                                     *)

\* the scenario has run: its four blocks, median_font 11, NONE from the
\* classifier on every block, and structure_final_output has returned
ScenarioDone ==
    /\ blocks = ScenarioBlocks
    /\ median_font = 22
    /\ first_pass = << NONE, NONE, NONE, NONE >>
    /\ pc = "done"

\* C1 as stated: the scenario yields the title "Project Plan A Report" and
\* the outline [H1 "1. Introduction" on page 2].
C1_Original ==
    ScenarioDone
        => final_output =
              Return([title |-> TxtMergedTitle,
                      outline |-> << [level |-> H1, text |-> TxtIntroduction,
                                      page |-> 2] >>])

\* C1 amended: the scenario yields the title "Project Plan" and the outline
\* [H1 "A Report" on page 1, H1 "1. Introduction" on page 2]: the font
\* sizes 24 and 23 differ by 1.0, which is not below 1.0, so the second
\* line is not merged into the title.
C1_Scenario ==
    ScenarioDone
        => final_output =
              Return([title |-> TxtProjectPlan,
                      outline |-> << [level |-> H1, text |-> TxtAReport,
                                      page |-> 1],
                                     [level |-> H1, text |-> TxtIntroduction,
                                      page |-> 2] >>])

\* the scenario has run and produced a result
C1_Witness == ScenarioDone /\ final_output.exc = "none"
----------------------------------------------------------------------------
(* Properties of structure_final_output (SpecStructure)                    *)

Structured == pc \in {"done", "raised"}

StructureReturned == pc = "done" /\ final_output.exc = "none"

\* the indices of the blocks on page 1
PageOne(labeled_blocks) ==
    {j \in 0..(Len(labeled_blocks) - 1) :
        labeled_blocks[j + 1].page_number = 1}

\* page 1 holds exactly the blocks a and b, a before b in reading order,
\* of equal font size, b starting less than a font size below the end of a
TwoLineTitle(labeled_blocks, a, b) ==
    LET A == labeled_blocks[a + 1]
        B == labeled_blocks[b + 1]
    IN  /\ a < b
        /\ PageOne(labeled_blocks) = {a, b}
        /\ Has(A, "font_size") /\ Has(B, "font_size")
        /\ A.font_size = B.font_size
        /\ B.bbox.y0 - A.bbox.y1 < A.font_size

Positions(labeled_blocks) == 0..(Len(labeled_blocks) - 1)

\* C6 as stated: two such blocks are always both merged into the title,
\* whatever their texts and labels are, and neither is an outline entry.
C6_Original ==
    Structured =>
        \A a \in Positions(all_labeled_blocks),
           b \in Positions(all_labeled_blocks) :
            TwoLineTitle(all_labeled_blocks, a, b) =>
                /\ final_output.exc = "none"
                /\ {a, b} \subseteq title_block_indices(all_labeled_blocks)
                /\ \A n \in 1..Len(final_output.value.outline) :
                      final_output.value.outline[n].page # 1

\* C6 amended: two such blocks of which the earlier one does not rank below
\* the later one in the title sort (its sort key is at least the other's)
\* are merged into the title "A B", and neither is an outline entry.
C6_TitleMerge ==
    Structured =>
        \A a \in Positions(all_labeled_blocks),
           b \in Positions(all_labeled_blocks) :
            (/\ TwoLineTitle(all_labeled_blocks, a, b)
             /\ sort_key(all_labeled_blocks[a + 1])
                    >= sort_key(all_labeled_blocks[b + 1])) =>
                /\ final_output.exc = "none"
                /\ title_block_indices(all_labeled_blocks) = {a, b}
                /\ final_output.value.title =
                      strip(all_labeled_blocks[a + 1].text \o << " " >>
                                \o all_labeled_blocks[b + 1].text)
                /\ \A n \in 1..Len(final_output.value.outline) :
                      final_output.value.outline[n].page # 1

\* "Project Plan" and "A Report", both labeled as headings, were merged
C6_Witness ==
    /\ StructureReturned
    /\ Len(all_labeled_blocks) = 3
    /\ TwoLineTitle(all_labeled_blocks, 0, 2)
    /\ all_labeled_blocks[1].final_label = H2
    /\ all_labeled_blocks[3].final_label = H2
    /\ final_output.value.title = TxtMergedTitle

\* the indices that belong in the outline: not taken into the title, and
\* with a final label that starts with H
OutlineIndices(labeled_blocks, title_indices) ==
    {j \in Positions(labeled_blocks) :
        /\ j \notin title_indices
        /\ Has(labeled_blocks[j + 1], "final_label")
        /\ startswith(labeled_blocks[j + 1].final_label, << "H" >>)}

\* the n-th smallest element of a set of indices
NthOf(S, n) == CHOOSE j \in S : Cardinality({m \in S : m < j}) = n - 1

\* C8: the outline is exactly the blocks that are not in the title and
\* whose final label starts with H, in reading order, each as
\* {level, text, page}; no entry is labeled NONE or TITLE.
\* the outline lists exactly the blocks of the indices keep, in order
OutlineIs(outline, labeled_blocks, keep) ==
    /\ Len(outline) = Cardinality(keep)
    /\ \A n \in 1..Len(outline) :
          /\ outline[n] =
                [level |-> labeled_blocks[NthOf(keep, n) + 1].final_label,
                 text |-> labeled_blocks[NthOf(keep, n) + 1].text,
                 page |-> labeled_blocks[NthOf(keep, n) + 1].page_number]
          /\ outline[n].level \notin {NONE, TITLE}

C8_OutlineAssembly ==
    StructureReturned =>
        OutlineIs(final_output.value.outline, all_labeled_blocks,
                  OutlineIndices(all_labeled_blocks,
                                 title_block_indices(all_labeled_blocks)))

\* a page-1 heading went into the title and a later page-1 heading and a
\* page-2 heading made up the outline, in reading order
C8_Witness ==
    /\ StructureReturned
    /\ Len(all_labeled_blocks) = 3
    /\ \A k \in 1..3 : all_labeled_blocks[k].final_label = H2
    /\ title_block_indices(all_labeled_blocks) = {1}
    /\ Len(final_output.value.outline) = 2
    /\ final_output.value.outline[1].page = 1
    /\ final_output.value.outline[2].page = 2

\* the same blocks with every final label set to NONE
Unlabeled(labeled_blocks) ==
    [k \in 1..Len(labeled_blocks) |->
        with_final_label(labeled_blocks[k], NONE)]

\* C10: the title and the blocks taken into it are those of the same
\* document with all labels NONE, so they do not depend on the labels; a
\* block labeled TITLE is not listed in the outline.
\* the output and the title indices are those of the scan of the
\* unlabeled document
SameTitle(output, scan, plain_scan) ==
    /\ output.exc = plain_scan.exc
    /\ output.exc = "none" =>
          /\ output.value.title = strip(join(plain_scan.parts))
          /\ scan.indices = plain_scan.indices
          /\ \A n \in 1..Len(output.value.outline) :
                output.value.outline[n].level # TITLE

C10_TitleIgnoresLabels ==
    Structured =>
        SameTitle(final_output, title_scan(all_labeled_blocks),
                  title_scan(Unlabeled(all_labeled_blocks)))

\* a block labeled TITLE was passed over for a larger block labeled NONE,
\* and is in neither the title nor the outline
C10_Witness ==
    /\ StructureReturned
    /\ Len(all_labeled_blocks) = 2
    /\ all_labeled_blocks[1].final_label = TITLE
    /\ all_labeled_blocks[1].page_number = 2
    /\ all_labeled_blocks[2].final_label = NONE
    /\ title_block_indices(all_labeled_blocks) = {1}
    /\ final_output.value.outline = << >>

----------------------------------------------------------------------------
(* Properties of predict_outline (Spec)                                    *)

\* C5: a document without blocks yields the result
\* {title: "Untitled Document", outline: []}.
C5_Claim ==
    (pc = "done" /\ model_loaded /\ blocks = << >>)
        => final_output = Return([title |-> TxtUntitled, outline |-> << >>])

\* the largest element of a set of indices
SetMax(S) == CHOOSE x \in S : \A y \in S : x >= y

\* the level of a numeric heading label, and 0 for TITLE
ContextLevel(label) ==
    IF label = H1 THEN 1 ELSE IF label = H2 THEN 2
    ELSE IF label = H3 THEN 3 ELSE 0

====
